---------------------------- MODULE Spec2Model ----------------------------
(***************************************************************************)
(* Model of src/tools/singlejar/port.cc: the Windows emulation of          *)
(*   ssize_t pread(int fd, void *buf, size_t count, off64_t offset)        *)
(* on top of _get_osfhandle and ::ReadFile with an OVERLAPPED record.      *)
(*                                                                         *)
(* Machine words are scaled: a DWORD has DwordBits bits instead of 32 and  *)
(* ssize_t/size_t/off64_t have twice that, so that 2^DwordBits plays the   *)
(* part of 2^32 (4 GiB) and every conversion keeps its truncation.         *)
(*                                                                         *)
(* The two host primitives are modelled by their documented contracts:     *)
(*  - _get_osfhandle(fd): the handle behind an open fd; for a bad fd it    *)
(*    returns INVALID_HANDLE_VALUE and sets errno to EBADF.                *)
(*  - ReadFile on a synchronous handle (every CRT descriptor) with a       *)
(*    non-NULL lpOverlapped: zeroes *lpNumberOfBytesRead first, starts at  *)
(*    the OVERLAPPED offset, updates the handle's file pointer before it   *)
(*    returns, and at end of file returns FALSE (ERROR_HANDLE_EOF).        *)
(***************************************************************************)
EXTENDS Integers, Sequences, FiniteSets, TLC

\* ------------------------------------------------------------ bounds

\* Width of a DWORD in the model (stands for 32).
DwordBits == 4

\* Number of caller threads in the concurrent specification.
NThreads == 2

\* ------------------------------------------------------------ words

RECURSIVE Pow2(_)
Pow2(n) == IF n = 0 THEN 1 ELSE 2 * Pow2(n - 1)

DwordMod == Pow2(DwordBits)

\* ssize_t, size_t and off64_t are 64-bit: twice a DWORD.
SsizeBits == 2 * DwordBits

\* Conversion of an integer to DWORD (unsigned, DwordBits wide).
ToDword(v) == v % DwordMod

\* Conversion of an integer to ssize_t (two's complement, SsizeBits wide).
ToSsizeT(v) ==
  LET m == v % Pow2(SsizeBits)
  IN  IF m >= Pow2(SsizeBits - 1) THEN m - Pow2(SsizeBits) ELSE m

Min(a, b) == IF a < b THEN a ELSE b

\* ------------------------------------------------------------ files

Letters == <<"A", "B", "C", "D", "E", "F", "G", "H", "I", "J">>

\* The 10-byte file "ABCDEFGHIJ".
SmallFile == Letters

\* A file larger than 2^DwordBits bytes (stands for a file above 4 GiB).
BigFile == [i \in 1..(DwordMod + 6) |-> Letters[((i - 1) % 7) + 1]]

Files == {SmallFile, BigFile}

\* ------------------------------------------------------------ inputs

Threads == 1..NThreads

\* Descriptors: 3 is open for reading, 4 is open write-only, 5 is an open
\* descriptor wrapping a null handle, 7 is closed.
Fds == {3, 4, 5, 7}

Counts == {4, DwordMod + 1}

Offsets == {3, 8, 10, DwordMod + 3}

\* errno as the caller left it before the call.
ErrnoVals == {"ENOENT", "EINTR"}

BufCap == DwordMod + 1

\* The caller's buffer before the call: no file holds "?".
FreshBuf == [i \in 1..BufCap |-> "?"]

\* ------------------------------------------------------------ host

\* _get_osfhandle(fd): [h: the handle, bad: whether fd was rejected].
get_osfhandle(f) ==
  CASE f = 3 -> [h |-> "hRead", bad |-> FALSE]
    [] f = 4 -> [h |-> "hWrite", bad |-> FALSE]
    [] f = 5 -> [h |-> "NULL", bad |-> FALSE]
    [] OTHER -> [h |-> "INVALID_HANDLE_VALUE", bad |-> TRUE]

\* errno after _get_osfhandle: EBADF when the descriptor was rejected.
ErrnoAfterResolve(e, r) == IF r.bad THEN "EBADF" ELSE e

\* Position a ReadFile starts at: the OVERLAPPED offset, or the handle's
\* file pointer when lpOverlapped is NULL.
ReadStart(lp, fp) ==
  IF lp.null THEN fp ELSE lp.Offset + lp.OffsetHigh * DwordMod

\* ::ReadFile(h, buf, n, &ret, lp) on content f with file pointer fp:
\*   ok: the BOOL returned; n: *lpNumberOfBytesRead; data: bytes stored
\*   at the start of buf; fp: the handle's file pointer afterwards.
\* Only "hRead" is a file handle with read access.  At end of file the call
\* fails (ERROR_HANDLE_EOF) when lpOverlapped is given and succeeds with 0
\* bytes when it is NULL.
ReadFile(h, n, lp, f, fp) ==
  LET pos == ReadStart(lp, fp)
      got == Min(n, Len(f) - pos)
  IN  IF h # "hRead"
        THEN [ok |-> FALSE, n |-> 0, data |-> <<>>, fp |-> fp]
      ELSE IF pos >= Len(f)
        THEN [ok |-> lp.null, n |-> 0, data |-> <<>>, fp |-> fp]
      ELSE [ok |-> TRUE, n |-> got,
            data |-> [i \in 1..got |-> f[pos + i]], fp |-> pos + got]

\* buf after data was stored at its start.
Store(b, data) == [i \in 1..Len(b) |-> IF i <= Len(data) THEN data[i] ELSE b[i]]

\* ------------------------------------------------------------ pread

\* DWORD ret = -1;
InitRet == ToDword(-1)

\* memset(&overlap, 0, sizeof(OVERLAPPED)); overlap.Offset = offset;
BuildOverlap(o) == [Offset |-> ToDword(o), OffsetHigh |-> 0]

\* lpOverlapped of the ReadFile call: NULL instead of &overlap.
OverlappedArgNull(ov) == [null |-> TRUE, Offset |-> 0, OffsetHigh |-> 0]

\* lpOverlapped of the ReadFile call: &overlap.
OverlappedArg(ov) ==
  [null |-> FALSE, Offset |-> ov.Offset, OffsetHigh |-> ov.OffsetHigh]

\* nNumberOfBytesToRead: size_t count passed as DWORD.
BytesToRead(c) == ToDword(c)

\* return ret;  where r is the DWORD ret.
FailResultFallThrough(r) == ToSsizeT(r)

\* return -1;   taken when ReadFile returned FALSE.
FailResult(r) == ToSsizeT(-1)

\* return ret;
OkResult(r) == ToSsizeT(r)

\* errno across the ReadFile call and the failure branch.
ErrnoAfterReadFileSet(e, ok) == IF ok THEN e ELSE "EIO"

ErrnoAfterReadFile(e, ok) == e

\* ------------------------------------------------------------ state

VARIABLES
  file,        \* content of the file behind descriptor 3 (never written)
  filePointer, \* file pointer of that handle: the descriptor's cursor
  errno,       \* errno of each thread
  pc,          \* each thread's position in pread
  fd, count, offset,   \* arguments of each thread's call
  buf,         \* each thread's destination buffer
  ret, hFile, overlap, \* locals of each thread's call
  result,      \* value returned by each thread's call
  nreads,      \* native reads issued by the current call
  nreq,        \* nNumberOfBytesToRead of the last native read
  readOk,      \* "none", "ok" or "failed": what ReadFile reported
  fp0, errno0, \* file pointer and errno when the call was entered
  overlapped,  \* the call was entered while another call was in progress
  first,       \* the first call thread 1 completed
  between      \* a call with other arguments completed after first

vars == <<file, filePointer, errno, pc, fd, count, offset, buf, ret, hFile,
          overlap, result, nreads, nreq, readOk, fp0, errno0, overlapped,
          first, between>>

NoCall == [set |-> FALSE, fd |-> 0, count |-> 0, offset |-> 0,
           result |-> 0, buf |-> FreshBuf]

Init ==
  /\ file \in Files
  /\ filePointer \in {0, 2}
  /\ errno = [t \in Threads |-> "ENOENT"]
  /\ pc = [t \in Threads |-> "idle"]
  /\ fd = [t \in Threads |-> 3]
  /\ count = [t \in Threads |-> 4]
  /\ offset = [t \in Threads |-> 3]
  /\ buf = [t \in Threads |-> FreshBuf]
  /\ ret = [t \in Threads |-> 0]
  /\ hFile = [t \in Threads |-> "NULL"]
  /\ overlap = [t \in Threads |-> [Offset |-> 0, OffsetHigh |-> 0]]
  /\ result = [t \in Threads |-> 0]
  /\ nreads = [t \in Threads |-> 0]
  /\ nreq = [t \in Threads |-> 0]
  /\ readOk = [t \in Threads |-> "none"]
  /\ fp0 = [t \in Threads |-> 0]
  /\ errno0 = [t \in Threads |-> "ENOENT"]
  /\ overlapped = [t \in Threads |-> FALSE]
  /\ first = NoCall
  /\ between = FALSE

InCall(t) == pc[t] \notin {"idle", "done"}

\* Entry of pread and line 25, with the descriptor drawn from fset, the
\* caller's errno from eset and <<count, offset>> from ranges.
CallWith(t, fset, eset, ranges) ==
  /\ pc[t] = "idle"
  /\ \E f \in fset, co \in ranges, e \in eset :
       /\ fd' = [fd EXCEPT ![t] = f]
       /\ count' = [count EXCEPT ![t] = co[1]]
       /\ offset' = [offset EXCEPT ![t] = co[2]]
       /\ errno' = [errno EXCEPT ![t] = e]
       /\ errno0' = [errno0 EXCEPT ![t] = e]
  /\ ret' = [ret EXCEPT ![t] = InitRet]
  /\ buf' = [buf EXCEPT ![t] = FreshBuf]
  /\ fp0' = [fp0 EXCEPT ![t] = filePointer]
  /\ nreads' = [nreads EXCEPT ![t] = 0]
  /\ nreq' = [nreq EXCEPT ![t] = 0]
  /\ readOk' = [readOk EXCEPT ![t] = "none"]
  /\ overlapped' = [overlapped EXCEPT ![t] = \E u \in Threads \ {t} : InCall(u)]
  /\ pc' = [pc EXCEPT ![t] = "L26"]
  /\ UNCHANGED <<file, filePointer, hFile, overlap, result, first, between>>

Call(t) == CallWith(t, Fds, ErrnoVals, Counts \X Offsets)

\* The descriptor the threads share: the one a thread already passed.
SharedFds ==
  IF \E u \in Threads : pc[u] # "idle"
    THEN {fd[u] : u \in {v \in Threads : pc[v] # "idle"}}
    ELSE Fds

\* The ranges disjoint from the range of every call already entered.
FreeRanges ==
  {co \in Counts \X Offsets :
     \A u \in Threads :
       pc[u] # "idle" =>
         (co[2] + co[1] <= offset[u] \/ offset[u] + count[u] <= co[2])}

\* A thread joins the concurrent readers of the shared descriptor.
CallShared(t) == CallWith(t, SharedFds, {errno[t]}, FreeRanges)

\* Line 26: HANDLE hFile = reinterpret_cast<HANDLE>(_get_osfhandle(fd));
GetOsfHandle(t) ==
  /\ pc[t] = "L26"
  /\ LET r == get_osfhandle(fd[t])
     IN  /\ hFile' = [hFile EXCEPT ![t] = r.h]
         /\ errno' = [errno EXCEPT ![t] = ErrnoAfterResolve(errno[t], r)]
  /\ pc' = [pc EXCEPT ![t] = "L27"]
  /\ UNCHANGED <<file, filePointer, fd, count, offset, buf, ret, overlap,
                 result, nreads, nreq, readOk, fp0, errno0, overlapped,
                 first, between>>

\* Lines 27-30: if (hFile) { OVERLAPPED overlap; memset; overlap.Offset = offset;
TestHandle(t) ==
  /\ pc[t] = "L27"
  /\ IF hFile[t] # "NULL"
       THEN /\ overlap' = [overlap EXCEPT ![t] = BuildOverlap(offset[t])]
            /\ pc' = [pc EXCEPT ![t] = "L31"]
       ELSE /\ pc' = [pc EXCEPT ![t] = "L37"]
            /\ UNCHANGED overlap
  /\ UNCHANGED <<file, filePointer, errno, fd, count, offset, buf, ret, hFile,
                 result, nreads, nreq, readOk, fp0, errno0, overlapped,
                 first, between>>

\* Lines 31-35: if (!::ReadFile(hFile, buf, count, &ret, &overlap)) return -1;
CallReadFile(t) ==
  /\ pc[t] = "L31"
  /\ LET r == ReadFile(hFile[t], BytesToRead(count[t]),
                       OverlappedArg(overlap[t]), file, filePointer)
     IN  /\ ret' = [ret EXCEPT ![t] = r.n]
         /\ buf' = [buf EXCEPT ![t] = Store(buf[t], r.data)]
         /\ filePointer' = r.fp
         /\ errno' = [errno EXCEPT ![t] = ErrnoAfterReadFile(errno[t], r.ok)]
         /\ readOk' = [readOk EXCEPT ![t] = IF r.ok THEN "ok" ELSE "failed"]
         /\ IF r.ok
              THEN /\ pc' = [pc EXCEPT ![t] = "L37"]
                   /\ UNCHANGED result
              ELSE /\ pc' = [pc EXCEPT ![t] = "done"]
                   /\ result' = [result EXCEPT ![t] = FailResult(r.n)]
  /\ nreads' = [nreads EXCEPT ![t] = nreads[t] + 1]
  /\ nreq' = [nreq EXCEPT ![t] = BytesToRead(count[t])]
  /\ UNCHANGED <<file, fd, count, offset, hFile, overlap, fp0, errno0,
                 overlapped, first, between>>

\* Line 37: return ret;
Return(t) ==
  /\ pc[t] = "L37"
  /\ result' = [result EXCEPT ![t] = OkResult(ret[t])]
  /\ pc' = [pc EXCEPT ![t] = "done"]
  /\ UNCHANGED <<file, filePointer, errno, fd, count, offset, buf, ret, hFile,
                 overlap, nreads, nreq, readOk, fp0, errno0, overlapped,
                 first, between>>

SameArgs(t) ==
  /\ first.set
  /\ first.fd = fd[t] /\ first.count = count[t] /\ first.offset = offset[t]

\* The caller takes the result and is free to call again; the frame of the
\* finished call is gone.
Finish(t) ==
  /\ pc[t] = "done"
  /\ pc' = [pc EXCEPT ![t] = "idle"]
  /\ fd' = [fd EXCEPT ![t] = 3]
  /\ count' = [count EXCEPT ![t] = 4]
  /\ offset' = [offset EXCEPT ![t] = 3]
  /\ buf' = [buf EXCEPT ![t] = FreshBuf]
  /\ ret' = [ret EXCEPT ![t] = 0]
  /\ hFile' = [hFile EXCEPT ![t] = "NULL"]
  /\ overlap' = [overlap EXCEPT ![t] = [Offset |-> 0, OffsetHigh |-> 0]]
  /\ result' = [result EXCEPT ![t] = 0]
  /\ nreads' = [nreads EXCEPT ![t] = 0]
  /\ nreq' = [nreq EXCEPT ![t] = 0]
  /\ readOk' = [readOk EXCEPT ![t] = "none"]
  /\ fp0' = [fp0 EXCEPT ![t] = 0]
  /\ errno0' = [errno0 EXCEPT ![t] = "ENOENT"]
  /\ overlapped' = [overlapped EXCEPT ![t] = FALSE]
  /\ IF ~first.set
       THEN /\ first' = [set |-> TRUE, fd |-> fd[t], count |-> count[t],
                         offset |-> offset[t], result |-> result[t],
                         buf |-> buf[t]]
            /\ UNCHANGED between
       ELSE /\ between' = (between \/ ~SameArgs(t))
            /\ UNCHANGED first
  /\ UNCHANGED <<file, filePointer, errno>>

Step(t) ==
  \/ Call(t)
  \/ GetOsfHandle(t)
  \/ TestHandle(t)
  \/ CallReadFile(t)
  \/ Return(t)

\* One caller issuing calls one after another.
Next == Step(1) \/ Finish(1)

Spec == Init /\ [][Next]_vars

\* NThreads callers, one call each, interleaved at every line.
StepMT(t) ==
  \/ CallShared(t)
  \/ GetOsfHandle(t)
  \/ TestHandle(t)
  \/ CallReadFile(t)
  \/ Return(t)

NextMT == \E t \in Threads : StepMT(t)

SpecMT == Init /\ [][NextMT]_vars

\* ------------------------------------------------------------ pread, whole

\* pread(f, buf, c, o) run from entry to return with nothing in between,
\* entered with file pointer fp: the value returned and the buffer left.
preadAlone(f, c, o, fp) ==
  LET r == get_osfhandle(f)
      rf == ReadFile(r.h, BytesToRead(c), OverlappedArg(BuildOverlap(o)),
                     file, fp)
  IN  IF r.h = "NULL"
        THEN [result |-> OkResult(InitRet), buf |-> FreshBuf]
        ELSE [result |-> IF rf.ok THEN OkResult(rf.n) ELSE FailResult(rf.n),
              buf |-> Store(FreshBuf, rf.data)]

\* ------------------------------------------------------------ claims

Done(t) == pc[t] = "done"

Handle(t) == get_osfhandle(fd[t]).h

Disjoint(t, u) ==
  \/ offset[t] + count[t] <= offset[u]
  \/ offset[u] + count[u] <= offset[t]

\* C1: for a readable descriptor and 0 <= offset < file size, pread returns
\* r with 0 <= r <= count and buf[0..r) holds the file's bytes at
\* [offset, offset + r).
C1_ReadWithinBounds ==
  \A t \in Threads :
    (Done(t) /\ Handle(t) = "hRead" /\ offset[t] < Len(file)) =>
      /\ result[t] \in 0..count[t]
      /\ offset[t] + result[t] <= Len(file)
      /\ \A i \in 1..result[t] : buf[t][i] = file[offset[t] + i]

\* C2: when a pread call has returned, the descriptor's file pointer has the
\* value it had when the call was entered.
C2_CursorUnchanged ==
  \A t \in Threads : Done(t) => filePointer = fp0[t]

\* C3: for a descriptor that resolves to a null handle or to the invalid
\* handle value, pread returns a negative value and leaves buf as it was.
C3_UnresolvableFails ==
  \A t \in Threads :
    (Done(t) /\ Handle(t) \in {"NULL", "INVALID_HANDLE_VALUE"}) =>
      (result[t] < 0 /\ buf[t] = FreshBuf)

\* C4: whenever ReadFile reports failure, pread returns -1 having issued
\* exactly one native read; no call ever issues a second one.
C4_ReadFailureReturnsSentinel ==
  \A t \in Threads :
    /\ nreads[t] <= 1
    /\ (Done(t) /\ readOk[t] = "failed") => (result[t] = -1 /\ nreads[t] = 1)

\* C4 witness: a call on the readable descriptor returned after ReadFile
\* failed (the read started at end of file).
C4_Witness ==
  \E t \in Threads : Done(t) /\ readOk[t] = "failed" /\ hFile[t] = "hRead"

\* C5: for a readable descriptor and offset >= file size, pread returns 0
\* and leaves buf as it was.
C5_EofReturnsZero ==
  \A t \in Threads :
    (Done(t) /\ Handle(t) = "hRead" /\ offset[t] >= Len(file)) =>
      (result[t] = 0 /\ buf[t] = FreshBuf)

\* C6: when the threads call pread on one descriptor, each with its own
\* buffer and with pairwise disjoint offset ranges, every returned call has
\* the result and the buffer it would have if it had run alone.
C6_ConcurrentAsAlone ==
  \A t \in Threads :
    (/\ Done(t)
     /\ \A u \in Threads \ {t} :
          pc[u] # "idle" => (fd[u] = fd[t] /\ Disjoint(t, u))) =>
      LET a == preadAlone(fd[t], count[t], offset[t], fp0[t])
      IN  result[t] = a.result /\ buf[t] = a.buf

\* C6 witness: two calls on the readable descriptor with disjoint ranges,
\* one entered while the other was in progress, both returned with data.
C6_Witness ==
  \E t \in Threads, u \in Threads :
    /\ t # u /\ Done(t) /\ Done(u) /\ overlapped[u]
    /\ Handle(t) = "hRead" /\ fd[u] = fd[t] /\ Disjoint(t, u)
    /\ result[t] > 0 /\ result[u] > 0

\* C7 as claimed: after a failure return errno has the value it had before
\* the call.
C7_ErrnoUnchangedOnFailure ==
  \A t \in Threads : (Done(t) /\ result[t] < 0) => errno[t] = errno0[t]

\* C7 amended: after a failure return errno has the value it had before the
\* call when the descriptor resolved to a handle, and is EBADF when
\* _get_osfhandle rejected the descriptor.
C7_ErrnoSetOnlyByResolve ==
  \A t \in Threads :
    (Done(t) /\ result[t] < 0) =>
      errno[t] = (IF get_osfhandle(fd[t]).bad THEN "EBADF" ELSE errno0[t])

\* C7 witness: a call on an open descriptor failed in ReadFile.
C7_Witness ==
  \E t \in Threads :
    /\ Done(t) /\ result[t] < 0 /\ readOk[t] = "failed"
    /\ ~get_osfhandle(fd[t]).bad /\ errno0[t] = "EINTR"

\* C8: a call with the arguments of an earlier call returns the same result
\* and leaves the same buffer, whatever calls ran in between.
C8_RepeatedCallSame ==
  (Done(1) /\ SameArgs(1)) => (result[1] = first.result /\ buf[1] = first.buf)

\* C8 witness: a repeated call that returned data, after a call with other
\* arguments ran in between.
C8_Witness ==
  Done(1) /\ SameArgs(1) /\ between /\ result[1] > 0

\* C9: the OVERLAPPED record passed to ReadFile carries the offset in its
\* low and high fields, so the read starts at byte position offset.
C9_OverlapCarriesOffset ==
  \A t \in Threads :
    pc[t] = "L31" =>
      /\ overlap[t].Offset = offset[t] % DwordMod
      /\ overlap[t].OffsetHigh = offset[t] \div DwordMod
      /\ ReadStart(OverlappedArg(overlap[t]), filePointer) = offset[t]

\* C10: the native read is issued for exactly count bytes, and on success
\* the value returned is the transferred count, non-negative.
C10_ReadRequestsCount ==
  \A t \in Threads :
    /\ nreads[t] >= 1 => nreq[t] = count[t]
    /\ (Done(t) /\ readOk[t] = "ok") => (result[t] = ret[t] /\ result[t] >= 0)

==========================================================================
